---- MODULE Spec2Model ----
(***************************************************************************)
(* The asynchronous Wikipedia client of wikipedia-rs                       *)
(* (src/src/async/wikipedia.rs, src/src/async/mod.rs) as a state machine.  *)
(*                                                                         *)
(* A Rust String is a sequence of one-character strings, so that find,     *)
(* slicing and format! are computed and not assumed.  An f64 is            *)
(* [nan, n]: either NaN or the number n / Scale.  The transport            *)
(* (AsyncHttpClient::get) is the environment: it records each request it   *)
(* is handed and answers with any text of Answers or with an error.        *)
(***************************************************************************)
EXTENDS Integers, Sequences, FiniteSets, TLC

VARIABLES
    self,      \* the Wikipedia struct: its four fields the operations read
    pc,        \* "idle", "awaiting" (suspended in client.get) or "done"
    op,        \* the operation in progress or just returned, with its arguments
    entry,     \* self as it was when the operation was entered
    sent,      \* the requests the operation has handed to client.get, in order
    resp,      \* what client.get answered the operation
    result,    \* the value the operation returned
    origin     \* the argument of the latest set_base_url, and whether it had no marker

vars == <<self, pc, op, entry, sent, resp, result, origin>>

(***************************************************************************)
(* Bounds of the model.                                                    *)
(***************************************************************************)
\* the number of pieces a set_base_url argument is built from (SpecTemplate)
MaxPieces == 2
\* the length of the array a response holds
MaxItems == 2

(***************************************************************************)
(* Strings.                                                                *)
(***************************************************************************)
\* "{language}", crate::LANGUAGE_URL_MARKER
LANGUAGE_URL_MARKER == <<"{", "l", "a", "n", "g", "u", "a", "g", "e", "}">>

\* str::find: the first 0-based index at which pat occurs in s, as an Option
MatchAt(s, pat, i) ==
    /\ i + Len(pat) <= Len(s)
    /\ \A k \in 1..Len(pat) : s[i + k] = pat[k]

find(s, pat) ==
    IF \E i \in 0..Len(s) : MatchAt(s, pat, i)
    THEN [some |-> TRUE,
          i |-> CHOOSE i \in 0..Len(s) :
                    MatchAt(s, pat, i) /\ \A j \in 0..(i - 1) : ~MatchAt(s, pat, j)]
    ELSE [some |-> FALSE, i |-> 0]

\* s[from..to] and s[from..], 0-based and end-exclusive as in Rust
Slice(s, from, to) == SubSeq(s, from + 1, to)
SliceFrom(s, from) == SubSeq(s, from + 1, Len(s))

(***************************************************************************)
(* The client and its URL template.                                        *)
(***************************************************************************)
\* Wikipedia::new
new ==
    [pre_language_url |-> <<"h", "t", "t", "p", "s", ":", "/", "/">>,
     post_language_url |-> <<".", "w", "i", "k", "i", "p", "e", "d", "i", "a",
                             ".", "o", "r", "g", "/", "w", "/",
                             "a", "p", "i", ".", "p", "h", "p">>,
     language |-> <<"e", "n">>,
     search_results |-> 10]

\* Wikipedia::base_url
base_url(w) == w.pre_language_url \o w.language \o w.post_language_url

\* Wikipedia::set_base_url with the marker skipped over by one character less
set_base_url_short_skip(w, url) ==
    LET found == find(url, LANGUAGE_URL_MARKER) IN
    IF ~found.some
    THEN [w EXCEPT !.pre_language_url = url,
                   !.language = <<>>,
                   !.post_language_url = <<>>]
    ELSE [w EXCEPT !.pre_language_url = Slice(url, 0, found.i),
                   !.post_language_url =
                       SliceFrom(url, found.i + Len(LANGUAGE_URL_MARKER) - 1)]

\* Wikipedia::set_base_url keeping the language when there is no marker
set_base_url_keep_language(w, url) ==
    LET found == find(url, LANGUAGE_URL_MARKER) IN
    IF ~found.some
    THEN [w EXCEPT !.pre_language_url = url,
                   !.post_language_url = <<>>]
    ELSE [w EXCEPT !.pre_language_url = Slice(url, 0, found.i),
                   !.post_language_url =
                       SliceFrom(url, found.i + Len(LANGUAGE_URL_MARKER))]

\* Wikipedia::set_base_url
set_base_url(w, url) ==
    LET found == find(url, LANGUAGE_URL_MARKER) IN
    IF ~found.some
    THEN [w EXCEPT !.pre_language_url = url,
                   !.language = <<>>,
                   !.post_language_url = <<>>]
    ELSE [w EXCEPT !.pre_language_url = Slice(url, 0, found.i),
                   !.post_language_url =
                       SliceFrom(url, found.i + Len(LANGUAGE_URL_MARKER))]

(***************************************************************************)
(* JSON: serde_json::Value, and serde_json::from_str over a text that is a *)
(* sequence of tokens [t, s] (punctuation, null, true, a number or a       *)
(* string with its content s).                                             *)
(***************************************************************************)
JValue(kind, s, arr, obj) == [kind |-> kind, s |-> s, arr |-> arr, obj |-> obj]
JNull == JValue("null", "", <<>>, <<>>)
JBool == JValue("bool", "true", <<>>, <<>>)
JNumber(s) == JValue("number", s, <<>>, <<>>)
JString(s) == JValue("string", s, <<>>, <<>>)
JArray(items) == JValue("array", "", items, <<>>)
\* an object is its members [k, v], one per key
JObject(members) == JValue("object", "", <<>>, members)

Tok(t) == [t |-> t, s |-> ""]
StrTok(s) == [t |-> "str", s |-> s]
NumTok(s) == [t |-> "num", s |-> s]

\* Map::insert: a repeated key keeps its place and takes the new value
MapInsert(members, key, v) ==
    IF \E i \in 1..Len(members) : members[i].k = key
    THEN [i \in 1..Len(members) |->
              IF members[i].k = key THEN [k |-> key, v |-> v] ELSE members[i]]
    ELSE Append(members, [k |-> key, v |-> v])

Parsed(v, next) == [ok |-> TRUE, val |-> v, next |-> next]
ParseFail == [ok |-> FALSE, val |-> JNull, next |-> 0]
Peek(text, i) == IF i <= Len(text) THEN text[i].t ELSE "eof"

RECURSIVE ParseValue(_, _), ParseElements(_, _, _), ParseMembers(_, _, _)
\* one JSON value starting at token i
ParseValue(text, i) ==
    LET t == Peek(text, i) IN
    CASE t = "null" -> Parsed(JNull, i + 1)
      [] t = "true" -> Parsed(JBool, i + 1)
      [] t = "num" -> Parsed(JNumber(text[i].s), i + 1)
      [] t = "str" -> Parsed(JString(text[i].s), i + 1)
      [] t = "[" -> IF Peek(text, i + 1) = "]"
                    THEN Parsed(JArray(<<>>), i + 2)
                    ELSE ParseElements(text, i + 1, <<>>)
      [] t = "{" -> IF Peek(text, i + 1) = "}"
                    THEN Parsed(JObject(<<>>), i + 2)
                    ELSE ParseMembers(text, i + 1, <<>>)
      [] OTHER -> ParseFail

\* the elements of an array from token i on, up to its "]"
ParseElements(text, i, acc) ==
    LET v == ParseValue(text, i) IN
    IF ~v.ok THEN ParseFail
    ELSE IF Peek(text, v.next) = ","
         THEN ParseElements(text, v.next + 1, Append(acc, v.val))
    ELSE IF Peek(text, v.next) = "]"
         THEN Parsed(JArray(Append(acc, v.val)), v.next + 1)
    ELSE ParseFail

\* the members of an object from token i on, up to its "}"
ParseMembers(text, i, acc) ==
    IF Peek(text, i) # "str" \/ Peek(text, i + 1) # ":" THEN ParseFail
    ELSE LET v == ParseValue(text, i + 2) IN
         IF ~v.ok THEN ParseFail
         ELSE IF Peek(text, v.next) = ","
              THEN ParseMembers(text, v.next + 1, MapInsert(acc, text[i].s, v.val))
         ELSE IF Peek(text, v.next) = "}"
              THEN Parsed(JObject(MapInsert(acc, text[i].s, v.val)), v.next + 1)
         ELSE ParseFail

\* serde_json::from_str: one value and then the end of the text
from_str(text) ==
    LET v == ParseValue(text, 1) IN
    IF v.ok /\ v.next = Len(text) + 1
    THEN [ok |-> TRUE, val |-> v.val]
    ELSE [ok |-> FALSE, val |-> JNull]

\* Option<&Value>
Some(v) == [some |-> TRUE, v |-> v]
None == [some |-> FALSE, v |-> JNull]

\* x.as_object().and_then(|x| x.get(key)) on an Option<&Value>
get(x, key) ==
    IF x.some /\ x.v.kind = "object" /\ \E i \in 1..Len(x.v.obj) : x.v.obj[i].k = key
    THEN Some(x.v.obj[CHOOSE i \in 1..Len(x.v.obj) : x.v.obj[i].k = key].v)
    ELSE None

\* x.and_then(|x| x.as_array())
as_array(x) == IF x.some /\ x.v.kind = "array" THEN x ELSE None

\* x.and_then(|x| x.as_str())
as_str(x) == IF x.some /\ x.v.kind = "string" THEN x ELSE None

(***************************************************************************)
(* Results: Result<Vec<String>>, Result<Vec<(String, String)>> and         *)
(* Result<Option<String>> in one record.  An Option<String> is a sequence  *)
(* of at most one title.                                                   *)
(***************************************************************************)
NoResult ==
    [tag |-> "none", err |-> "", param |-> "", list |-> <<>>, pairs |-> <<>>, opt |-> <<>>]
OkList(l) == [NoResult EXCEPT !.tag = "Ok", !.list = l]
OkPairs(ps) == [NoResult EXCEPT !.tag = "Ok", !.pairs = ps]
OkOption(o) == [NoResult EXCEPT !.tag = "Ok", !.opt = o]
Err(e) == [NoResult EXCEPT !.tag = "Err", !.err = e]
\* Error::InvalidParameter(name)
InvalidParameter(name) == [Err("InvalidParameter") EXCEPT !.param = name]
\* Error::JSONPathError
JSONPathError == "JSONPathError"
\* the crate's Error that `?` makes of a serde_json::Error; the variant is
\* declared in the crate root
DecodeError == "DecodeError"

\* i.as_object().and_then(|i| i.get("title")).and_then(|s| s.as_str()...)
title_of(i) == as_str(get(Some(i), "title"))

RECURSIVE filter_map_titles(_)
\* .iter().filter_map(..).collect() of Wikipedia::results
filter_map_titles(items) ==
    IF items = <<>> THEN <<>>
    ELSE LET t == title_of(Head(items)) IN
         (IF t.some THEN <<t.v.s>> ELSE <<>>) \o filter_map_titles(Tail(items))

\* Wikipedia::results stopping at the first element without a title
RECURSIVE take_while_titles(_)
take_while_titles(items) ==
    IF items = <<>> THEN <<>>
    ELSE LET t == title_of(Head(items)) IN
         IF t.some THEN <<t.v.s>> \o take_while_titles(Tail(items)) ELSE <<>>

results_take_while(data, query_field) ==
    LET target == as_array(get(get(Some(data), "query"), query_field)) IN
    IF ~target.some THEN Err(JSONPathError)
    ELSE OkList(take_while_titles(target.v.arr))

\* Wikipedia::results answering an empty list where the path is missing
results_lenient_path(data, query_field) ==
    LET target == as_array(get(get(Some(data), "query"), query_field)) IN
    IF ~target.some THEN OkList(<<>>)
    ELSE OkList(filter_map_titles(target.v.arr))

\* Wikipedia::results
results(data, query_field) ==
    LET target == as_array(get(get(Some(data), "query"), query_field)) IN
    IF ~target.some THEN Err(JSONPathError)
    ELSE OkList(filter_map_titles(target.v.arr))

RECURSIVE filter_map_languages(_)
\* the filter_map of Wikipedia::get_languages: both "code" and "*" must be strings
filter_map_languages(items) ==
    IF items = <<>> THEN <<>>
    ELSE LET code == as_str(get(Some(Head(items)), "code"))
             name == as_str(get(Some(Head(items)), "*"))
         IN  (IF code.some /\ name.some THEN << <<code.v.s, name.v.s>> >> ELSE <<>>)
                 \o filter_map_languages(Tail(items))

\* the extraction of Wikipedia::get_languages
languages(data) ==
    LET target == as_array(get(get(Some(data), "query"), "languages")) IN
    IF ~target.some THEN Err(JSONPathError)
    ELSE OkPairs(filter_map_languages(target.v.arr))

(***************************************************************************)
(* Numbers and format!.                                                    *)
(***************************************************************************)
\* an f64 is NaN or n / Scale
Scale == 10^4
F64(n) == [nan |-> FALSE, n |-> n]
NaN == [nan |-> TRUE, n |-> 0]

\* (lo..=hi).contains(&x) for an f64 x: every comparison with NaN is false
range_contains(lo, hi, x) == ~x.nan /\ lo * Scale <= x.n /\ x.n <= hi * Scale

Digit(d) == <<"0", "1", "2", "3", "4", "5", "6", "7", "8", "9">>[d + 1]

RECURSIVE fmt_uint(_)
\* format!("{}", n) of an unsigned integer
fmt_uint(n) ==
    IF n < 10 THEN <<Digit(n)>> ELSE fmt_uint(n \div 10) \o <<Digit(n % 10)>>

RECURSIVE fmt_digits(_, _)
\* r in exactly width digits, zeros in front
fmt_digits(r, width) ==
    IF width = 0 THEN <<>>
    ELSE fmt_digits(r \div 10, width - 1) \o <<Digit(r % 10)>>

RECURSIVE fmt_fraction(_, _)
\* the digits after the point of r / 10^width (r > 0), without trailing zeros
fmt_fraction(r, width) ==
    IF r % 10 = 0 THEN fmt_fraction(r \div 10, width - 1)
    ELSE fmt_digits(r, width)

Abs(n) == IF n < 0 THEN -n ELSE n

\* format!("{x}") of an f64: the shortest decimal, no point for a whole number
fmt_f64(x) ==
    IF x.nan THEN <<"N", "a", "N">>
    ELSE (IF x.n < 0 THEN <<"-">> ELSE <<>>)
             \o fmt_uint(Abs(x.n) \div Scale)
             \o (IF Abs(x.n) % Scale = 0 THEN <<>>
                 ELSE <<".">> \o fmt_fraction(Abs(x.n) % Scale, 4))

(***************************************************************************)
(* The operations: validation, the query parameters, the request and what  *)
(* each operation makes of the transport's answer.                         *)
(***************************************************************************)
Arg(k, v) == [k |-> k, v |-> v]

\* the range checks of Wikipedia::geosearch with the upper bounds exclusive
geosearch_check_exclusive(latitude, longitude, radius) ==
    IF ~(range_contains(-90, 90, latitude) /\ latitude.n < 90 * Scale) THEN "latitude"
    ELSE IF ~(range_contains(-180, 180, longitude) /\ longitude.n < 180 * Scale)
         THEN "longitude"
    ELSE IF ~(10 <= radius /\ radius < 10000) THEN "radius"
    ELSE ""

\* the range checks of Wikipedia::geosearch: the parameter that fails, or ""
geosearch_check(latitude, longitude, radius) ==
    IF ~range_contains(-90, 90, latitude) THEN "latitude"
    ELSE IF ~range_contains(-180, 180, longitude) THEN "longitude"
    ELSE IF ~(10 <= radius /\ radius <= 10000) THEN "radius"
    ELSE ""

\* the closure of Wikipedia::search with a fixed limit of 10
search_args_fixed_limit(w, text) ==
    <<Arg("list", <<"s", "e", "a", "r", "c", "h">>),
      Arg("srprop", <<>>),
      Arg("srlimit", <<"1", "0">>),
      Arg("srsearch", text),
      Arg("format", <<"j", "s", "o", "n">>),
      Arg("action", <<"q", "u", "e", "r", "y">>)>>

\* the closure Wikipedia::search hands to query
search_args(w, text) ==
    <<Arg("list", <<"s", "e", "a", "r", "c", "h">>),
      Arg("srprop", <<>>),
      Arg("srlimit", fmt_uint(w.search_results)),
      Arg("srsearch", text),
      Arg("format", <<"j", "s", "o", "n">>),
      Arg("action", <<"q", "u", "e", "r", "y">>)>>

\* the closure Wikipedia::geosearch hands to query
geosearch_args(w, latitude, longitude, radius) ==
    <<Arg("list", <<"g", "e", "o", "s", "e", "a", "r", "c", "h">>),
      Arg("gsradius", fmt_uint(radius)),
      Arg("gscoord", fmt_f64(latitude) \o <<"|">> \o fmt_f64(longitude)),
      Arg("gslimit", fmt_uint(w.search_results)),
      Arg("format", <<"j", "s", "o", "n">>),
      Arg("action", <<"q", "u", "e", "r", "y">>)>>

\* the closure Wikipedia::random_count hands to query
random_count_args(count) ==
    <<Arg("list", <<"r", "a", "n", "d", "o", "m">>),
      Arg("rnnamespace", <<"0">>),
      Arg("rnlimit", fmt_uint(count)),
      Arg("format", <<"j", "s", "o", "n">>),
      Arg("action", <<"q", "u", "e", "r", "y">>)>>

\* the closure Wikipedia::get_languages hands to query
get_languages_args ==
    <<Arg("meta", <<"s", "i", "t", "e", "i", "n", "f", "o">>),
      Arg("siprop", <<"l", "a", "n", "g", "u", "a", "g", "e", "s">>),
      Arg("format", <<"j", "s", "o", "n">>),
      Arg("action", <<"q", "u", "e", "r", "y">>)>>

\* Wikipedia::query up to its await: what it hands to client.get
query_request(w, args) == [url |-> base_url(w), args |-> args]

\* the answers of client.get: Ok(text) or Err(e)
NoAnswer == [kind |-> "none", text |-> <<>>, err |-> "", json |-> FALSE, doc |-> JNull]

\* Wikipedia::query after its await: Result<serde_json::Value>
query_value(answer) ==
    IF answer.kind = "err" THEN [ok |-> FALSE, err |-> answer.err, val |-> JNull]
    ELSE LET parsed == from_str(answer.text) IN
         IF parsed.ok THEN [ok |-> TRUE, err |-> "", val |-> parsed.val]
         ELSE [ok |-> FALSE, err |-> DecodeError, val |-> JNull]

\* search, geosearch and random_count after `.await?`: Self::results(data, field)
titles_return(answer, query_field) ==
    LET data == query_value(answer) IN
    IF ~data.ok THEN Err(data.err) ELSE results(data.val, query_field)

\* Wikipedia::random_count after its await
random_count_return(answer) == titles_return(answer, "random")

\* Wikipedia::random taking the last title
random_return_last(answer) ==
    LET titles == random_count_return(answer) IN
    IF titles.tag = "Err" THEN titles
    ELSE OkOption(IF titles.list = <<>> THEN <<>>
                  ELSE <<titles.list[Len(titles.list)]>>)

\* Wikipedia::random: random_count(1).await?.into_iter().next()
random_return(answer) ==
    LET titles == random_count_return(answer) IN
    IF titles.tag = "Err" THEN titles
    ELSE OkOption(IF titles.list = <<>> THEN <<>> ELSE <<Head(titles.list)>>)

\* Wikipedia::get_languages after its await
get_languages_return(answer) ==
    LET data == query_value(answer) IN
    IF ~data.ok THEN Err(data.err) ELSE languages(data.val)

(***************************************************************************)
(* Inputs: what callers pass and what the transport answers.               *)
(***************************************************************************)
NoOp ==
    [name |-> "none", text |-> <<>>, latitude |-> F64(0), longitude |-> F64(0),
     radius |-> 0, count |-> 0]

Languages == {<<"d", "e">>, <<"e", "n">>}
SearchLimits == {10, 2147483647}
SearchTexts == {<<>>, <<"k", "e", "y">>}
Latitudes == {F64(-900001), F64(-900000), F64(400501), F64(900000), F64(900001), NaN}
Longitudes == {F64(-1800001), F64(-1800000), F64(-739936), F64(1800000), F64(1800001), NaN}
Radii == {0, 9, 10, 10000, 10001, 65535}
Counts == {0, 1, 255}

\* the pieces set_base_url arguments are built from: two of them together can
\* make up a marker, one marker with text on both sides, or two markers
UrlPieces ==
    {LANGUAGE_URL_MARKER,
     <<"a", "/">> \o LANGUAGE_URL_MARKER,
     <<"{", "l", "a", "n", "g">>,
     <<"u", "a", "g", "e", "}", "/", "b">>,
     <<"/", "b">>}

RECURSIVE Concat(_)
Concat(pieces) == IF pieces = <<>> THEN <<>> ELSE Head(pieces) \o Concat(Tail(pieces))

TemplateUrls == {Concat(ps) : ps \in UNION {[1..k -> UrlPieces] : k \in 0..MaxPieces}}

\* "https://x.example/api" and "https://{language}.x.example/api"
RawUrl ==
    <<"h", "t", "t", "p", "s", ":", "/", "/",
      "x", ".", "e", "x", "a", "m", "p", "l", "e", "/", "a", "p", "i">>
MarkerUrl ==
    <<"h", "t", "t", "p", "s", ":", "/", "/">> \o LANGUAGE_URL_MARKER
        \o <<".", "x", ".", "e", "x", "a", "m", "p", "l", "e", "/", "a", "p", "i">>
ClientUrls == {RawUrl, MarkerUrl}

Member(k, v) == [k |-> k, v |-> v]
TitleA == JObject(<<Member("title", JString("A"))>>)
TitleB == JObject(<<Member("title", JString("B"))>>)
NoTitle == JObject(<<Member("no_title", JNumber("1"))>>)
NumberTitle == JObject(<<Member("ns", JNumber("0")), Member("title", JNumber("1"))>>)
Items == {TitleA, TitleB, NoTitle, NumberTitle, JString("A")}

LanguageEn == JObject(<<Member("code", JString("en")), Member("*", JString("English"))>>)
CodeOnly == JObject(<<Member("code", JString("de"))>>)
LanguageItems == {LanguageEn, CodeOnly}

Arrays(items) == {JArray(a) : a \in UNION {[1..k -> items] : k \in 0..MaxItems}}
Envelope(key, target) ==
    JObject(<<Member("query", JObject(<<Member(key, target)>>))>>)
ResultKeys == {"search", "geosearch", "random"}

\* {"query":{"search":[{"title":"A"},{"no_title":1},{"title":"B"}]}}
LenientExample == Envelope("search", JArray(<<TitleA, NoTitle, TitleB>>))

Docs ==
    {Envelope(k, a) : k \in ResultKeys, a \in Arrays(Items)}
        \cup {Envelope("languages", a) : a \in Arrays(LanguageItems)}
        \cup {Envelope(k, t) : k \in ResultKeys \cup {"languages"},
                               t \in {JObject(<<>>), JNull}}
        \cup {LenientExample,
              JObject(<<Member("batchcomplete", JString("")),
                        Member("query", JObject(<<Member("random", JArray(<<TitleB, TitleA>>))>>))>>),
              JObject(<<Member("query", JObject(<<>>))>>),
              JObject(<<Member("query", JArray(<<>>))>>),
              JObject(<<>>), JArray(<<TitleA>>), JNull, JString("A")}

RECURSIVE Serialize(_), SerializeItems(_), SerializeMembers(_)
\* the text of a JSON value
Serialize(v) ==
    CASE v.kind = "null" -> <<Tok("null")>>
      [] v.kind = "bool" -> <<Tok("true")>>
      [] v.kind = "number" -> <<NumTok(v.s)>>
      [] v.kind = "string" -> <<StrTok(v.s)>>
      [] v.kind = "array" -> <<Tok("[")>> \o SerializeItems(v.arr) \o <<Tok("]")>>
      [] v.kind = "object" -> <<Tok("{")>> \o SerializeMembers(v.obj) \o <<Tok("}")>>

SerializeItems(items) ==
    IF items = <<>> THEN <<>>
    ELSE Serialize(Head(items))
             \o (IF Len(items) > 1 THEN <<Tok(",")>> ELSE <<>>)
             \o SerializeItems(Tail(items))

SerializeMembers(ms) ==
    IF ms = <<>> THEN <<>>
    ELSE <<StrTok(Head(ms).k), Tok(":")>> \o Serialize(Head(ms).v)
             \o (IF Len(ms) > 1 THEN <<Tok(",")>> ELSE <<>>)
             \o SerializeMembers(Tail(ms))

\* texts that are not JSON: every cut of a document short of its end, a
\* document with something after it, a missing comma, a missing colon
OneTitleText == Serialize(Envelope("search", JArray(<<TitleA>>)))
NotJson ==
    {SubSeq(OneTitleText, 1, n) : n \in 0..(Len(OneTitleText) - 1)}
        \cup {OneTitleText \o <<Tok("}")>>,
              OneTitleText \o OneTitleText,
              <<Tok("["), StrTok("A"), StrTok("B"), Tok("]")>>,
              <<Tok("{"), StrTok("query"), Tok("{"), Tok("}"), Tok("}")>>,
              <<Tok("["), StrTok("A"), Tok(","), Tok("]")>>,
              <<Tok("{"), Tok("null"), Tok(":"), Tok("null"), Tok("}")>>}

\* a repeated key: {"query":{"search":[{"title":1,"title":"A"}]}}, read as its last value
RepeatedKeyText ==
    <<Tok("{"), StrTok("query"), Tok(":"), Tok("{"), StrTok("search"), Tok(":"), Tok("["),
      Tok("{"), StrTok("title"), Tok(":"), NumTok("1"), Tok(","),
      StrTok("title"), Tok(":"), StrTok("A"), Tok("}"), Tok("]"), Tok("}"), Tok("}")>>

\* what client.get answers with Ok: the text and, for the claims, whether it
\* is JSON and the document it is the text of
OkAnswer(text, json, doc) ==
    [kind |-> "ok", text |-> text, err |-> "", json |-> json, doc |-> doc]
Answers ==
    {OkAnswer(Serialize(d), TRUE, d) : d \in Docs}
        \cup {OkAnswer(t, FALSE, JNull) : t \in NotJson}
        \cup {OkAnswer(RepeatedKeyText, TRUE, Envelope("search", JArray(<<TitleA>>)))}

\* what client.get fails with: Error::URLError (async/mod.rs) or the transport's error
TransportErrors == {"URLError", "NetworkError"}
ErrAnswer(e) == [NoAnswer EXCEPT !.kind = "err", !.err = e]

(***************************************************************************)
(* The state machine.  An operation is entered from "idle"; one that       *)
(* reaches client.get waits in "awaiting" for the transport's answer; its  *)
(* return value is in result at "done".  The fields are public, so a       *)
(* caller also assigns language and search_results between operations.     *)
(***************************************************************************)
Init ==
    /\ self = new
    /\ pc = "idle"
    /\ op = NoOp
    /\ entry = new
    /\ sent = <<>>
    /\ resp = NoAnswer
    /\ result = NoResult
    /\ origin = [raw |-> FALSE, url |-> <<>>]

\* whether pat occurs in s
Contains(s, pat) ==
    \E i \in 1..(Len(s) - Len(pat) + 1) : SubSeq(s, i, i + Len(pat) - 1) = pat

\* wiki.language = l
AssignLanguage ==
    /\ pc = "idle"
    /\ \E l \in Languages : self' = [self EXCEPT !.language = l]
    /\ entry' = self'
    /\ UNCHANGED <<pc, op, sent, resp, result, origin>>

\* wiki.search_results = n
AssignSearchResults ==
    /\ pc = "idle"
    /\ \E n \in SearchLimits : self' = [self EXCEPT !.search_results = n]
    /\ entry' = self'
    /\ UNCHANGED <<pc, op, sent, resp, result, origin>>

\* wiki.set_base_url(url)
SetBaseUrlFrom(urls) ==
    /\ pc = "idle"
    /\ \E url \in urls :
        /\ self' = set_base_url(self, url)
        /\ op' = [NoOp EXCEPT !.name = "set_base_url", !.text = url]
        /\ origin' = [raw |-> ~Contains(url, LANGUAGE_URL_MARKER), url |-> url]
    /\ pc' = "done"
    /\ entry' = self
    /\ UNCHANGED <<sent, resp, result>>

SetBaseUrl == SetBaseUrlFrom(ClientUrls)
SetTemplate == SetBaseUrlFrom(TemplateUrls)

\* an operation reaches `self.client.get(&self.base_url(), args()).await`
Await(o, args) ==
    /\ pc' = "awaiting"
    /\ op' = o
    /\ entry' = self
    /\ sent' = <<query_request(self, args)>>
    /\ UNCHANGED <<self, resp, result, origin>>

\* wiki.search(text)
Search ==
    /\ pc = "idle"
    /\ \E text \in SearchTexts :
        Await([NoOp EXCEPT !.name = "search", !.text = text], search_args(self, text))

\* Wikipedia::geosearch building and sending its request before the range checks
geosearch_enter_checks_late(w, latitude, longitude, radius) ==
    [failed |-> geosearch_check(latitude, longitude, radius),
     requests |-> <<query_request(w, geosearch_args(w, latitude, longitude, radius))>>]

\* Wikipedia::geosearch up to its await: the parameter whose check returned
\* early (or "") and the requests handed to client.get
geosearch_enter(w, latitude, longitude, radius) ==
    LET failed == geosearch_check(latitude, longitude, radius) IN
    IF failed # ""
    THEN [failed |-> failed, requests |-> <<>>]
    ELSE [failed |-> "",
          requests |-> <<query_request(w, geosearch_args(w, latitude, longitude, radius))>>]

\* wiki.geosearch(latitude, longitude, radius)
Geosearch ==
    /\ pc = "idle"
    /\ \E latitude \in Latitudes, longitude \in Longitudes, radius \in Radii :
        LET entered == geosearch_enter(self, latitude, longitude, radius) IN
        /\ op' = [NoOp EXCEPT !.name = "geosearch", !.latitude = latitude,
                              !.longitude = longitude, !.radius = radius]
        /\ sent' = entered.requests
        /\ pc' = IF entered.failed # "" THEN "done" ELSE "awaiting"
        /\ result' = IF entered.failed # "" THEN InvalidParameter(entered.failed)
                     ELSE NoResult
    /\ entry' = self
    /\ UNCHANGED <<self, resp, origin>>

\* wiki.random_count(count)
RandomCount ==
    /\ pc = "idle"
    /\ \E count \in Counts :
        Await([NoOp EXCEPT !.name = "random_count", !.count = count],
              random_count_args(count))

\* wiki.random(): it enters random_count(1)
Random ==
    /\ pc = "idle"
    /\ Await([NoOp EXCEPT !.name = "random"], random_count_args(1))

\* wiki.get_languages()
GetLanguages ==
    /\ pc = "idle"
    /\ Await([NoOp EXCEPT !.name = "get_languages"], get_languages_args)

\* what the operation o returns once client.get has answered
return_of(o, answer) ==
    CASE o.name = "search" -> titles_return(answer, "search")
      [] o.name = "geosearch" -> titles_return(answer, "geosearch")
      [] o.name = "random_count" -> random_count_return(answer)
      [] o.name = "random" -> random_return(answer)
      [] o.name = "get_languages" -> get_languages_return(answer)

\* Wikipedia::query asking the transport once more when a get has failed
query_get_failed_retry(requests) ==
    IF Len(requests) < 2
    THEN [pc |-> "awaiting", sent |-> Append(requests, requests[1])]
    ELSE [pc |-> "done", sent |-> requests]

\* Wikipedia::query when client.get has failed: `.await?` returns the error
query_get_failed(requests) == [pc |-> "done", sent |-> requests]

\* client.get answers Ok(text)
GetOk ==
    /\ pc = "awaiting"
    /\ \E answer \in Answers :
        /\ resp' = answer
        /\ result' = return_of(op, answer)
    /\ pc' = "done"
    /\ UNCHANGED <<self, op, entry, sent, origin>>

\* client.get answers Err(e)
GetErr ==
    /\ pc = "awaiting"
    /\ \E e \in TransportErrors :
        LET step == query_get_failed(sent) IN
        /\ resp' = ErrAnswer(e)
        /\ pc' = step.pc
        /\ sent' = step.sent
        /\ result' = IF step.pc = "done" THEN return_of(op, ErrAnswer(e)) ELSE NoResult
    /\ UNCHANGED <<self, op, entry, origin>>

\* the caller has the returned value; the client is at rest again
Return ==
    /\ pc = "done"
    /\ pc' = "idle"
    /\ op' = NoOp
    /\ entry' = self
    /\ sent' = <<>>
    /\ resp' = NoAnswer
    /\ result' = NoResult
    /\ UNCHANGED <<self, origin>>

Next ==
    \/ AssignLanguage
    \/ AssignSearchResults
    \/ SetBaseUrl
    \/ Search
    \/ Geosearch
    \/ RandomCount
    \/ Random
    \/ GetLanguages
    \/ GetOk
    \/ GetErr
    \/ Return

Spec == Init /\ [][Next]_vars

\* the URL template alone, under every argument built from UrlPieces
TemplateNext ==
    \/ AssignLanguage
    \/ SetTemplate
    \/ Return

SpecTemplate == Init /\ [][TemplateNext]_vars

(***************************************************************************)
(* The claims.  What a claim expects is stated here on its own terms: the  *)
(* ranges as sets, the marker by its occurrences, the document the         *)
(* transport answered by its members, a parameter's value by reading its   *)
(* digits back.                                                            *)
(***************************************************************************)
Returned(name) == pc = "done" /\ op.name = name
IsInvalidParameter(r) == r.tag = "Err" /\ r.err = "InvalidParameter"

LatitudeInRange(x) == ~x.nan /\ x.n \in (-90 * Scale)..(90 * Scale)
LongitudeInRange(x) == ~x.nan /\ x.n \in (-180 * Scale)..(180 * Scale)
RadiusInRange(r) == r \in 10..10000

\* C1: a geosearch call is rejected with InvalidParameter exactly when latitude
\* is outside [-90, 90], longitude outside [-180, 180] or radius outside
\* [10, 10000], bounds included, and the error names the first of latitude,
\* longitude, radius that is out of range.
C1_GeosearchValidation ==
    op.name = "geosearch" /\ pc \in {"awaiting", "done"} =>
        LET latOk == LatitudeInRange(op.latitude)
            lonOk == LongitudeInRange(op.longitude)
            radOk == RadiusInRange(op.radius)
        IN  /\ (latOk /\ lonOk /\ radOk) <=> ~(pc = "done" /\ IsInvalidParameter(result))
            /\ ~latOk => result = InvalidParameter("latitude")
            /\ latOk /\ ~lonOk => result = InvalidParameter("longitude")
            /\ latOk /\ lonOk /\ ~radOk => result = InvalidParameter("radius")

\* geosearch(90, 180, 10000) has passed validation and returned titles
C1_Witness ==
    /\ Returned("geosearch")
    /\ op.latitude = F64(90 * Scale)
    /\ op.longitude = F64(180 * Scale)
    /\ op.radius = 10000
    /\ result.tag = "Ok"

\* C2: a call that returns InvalidParameter has handed no request to the
\* transport.
C2_NoTransportOnInvalid ==
    IsInvalidParameter(result) => sent = <<>>

\* geosearch has returned InvalidParameter("radius")
C2_Witness ==
    /\ Returned("geosearch")
    /\ result = InvalidParameter("radius")

Occurrences(s, pat) ==
    {i \in 0..(Len(s) - Len(pat)) : SubSeq(s, i + 1, i + Len(pat)) = pat}

\* C3: after set_base_url(raw) with no marker in raw, base_url() is raw, the
\* prefix is raw and the language and the suffix are empty, whatever the
\* language was.
C3_RawUrlRendersItself ==
    Returned("set_base_url") /\ Occurrences(op.text, LANGUAGE_URL_MARKER) = {} =>
        /\ base_url(self) = op.text
        /\ self.pre_language_url = op.text
        /\ self.language = <<>>
        /\ self.post_language_url = <<>>

\* set_base_url has returned from a non-empty raw URL on a client with a language
C3_Witness ==
    /\ Returned("set_base_url")
    /\ Occurrences(op.text, LANGUAGE_URL_MARKER) = {}
    /\ op.text # <<>>
    /\ entry.language # <<>>

\* C4: after set_base_url(T) with the marker exactly once in T, on a client
\* whose language is lang, base_url() is the text before the marker, then
\* lang, then the text after the marker.
C4_TemplateRoundTrip ==
    Returned("set_base_url") /\ Cardinality(Occurrences(op.text, LANGUAGE_URL_MARKER)) = 1 =>
        \E i \in Occurrences(op.text, LANGUAGE_URL_MARKER) :
            base_url(self) =
                SubSeq(op.text, 1, i) \o entry.language
                    \o SubSeq(op.text, i + Len(LANGUAGE_URL_MARKER) + 1, Len(op.text))

\* set_base_url has returned from a template with text on both sides of its
\* one marker, on a client with a language
C4_Witness ==
    /\ Returned("set_base_url")
    /\ \E i \in Occurrences(op.text, LANGUAGE_URL_MARKER) :
        /\ Occurrences(op.text, LANGUAGE_URL_MARKER) = {i}
        /\ i > 0
        /\ i + Len(LANGUAGE_URL_MARKER) < Len(op.text)
    /\ entry.language # <<>>

\* C5: the language is empty only if the template in effect was set from a
\* raw URL with no marker, and then the prefix is that URL and the suffix is
\* empty.
C5_EmptyLanguageOnlyForRawUrl ==
    self.language = <<>> =>
        /\ origin.raw
        /\ self.pre_language_url = origin.url
        /\ self.post_language_url = <<>>

\* the members of a document, read without the client's navigation
HasMember(v, key) == v.kind = "object" /\ \E i \in DOMAIN v.obj : v.obj[i].k = key
MemberOf(v, key) == v.obj[CHOOSE i \in DOMAIN v.obj : v.obj[i].k = key].v
\* the key under "query" an operation reads
ResultKey(name) ==
    CASE name = "random_count" -> "random"
      [] name = "random" -> "random"
      [] name = "get_languages" -> "languages"
      [] OTHER -> name
\* the document has an array at query.<key>
HasResultArray(doc, key) ==
    /\ HasMember(doc, "query")
    /\ HasMember(MemberOf(doc, "query"), key)
    /\ MemberOf(MemberOf(doc, "query"), key).kind = "array"
ResultArray(doc, key) == MemberOf(MemberOf(doc, "query"), key).arr
\* the positions of an array that hold an object with a string "title"
Titled(arr) ==
    {i \in DOMAIN arr : HasMember(arr[i], "title") /\ MemberOf(arr[i], "title").kind = "string"}

\* C6: when the answer is a JSON document with an array at query.<resultKey>,
\* search, geosearch and random_count return the titles of the elements that
\* are objects with a string title, in the array's order, and nothing else.
C6_LenientTitles ==
    /\ pc = "done"
    /\ op.name \in {"search", "geosearch", "random_count"}
    /\ resp.kind = "ok" /\ resp.json
    /\ HasResultArray(resp.doc, ResultKey(op.name))
    => LET arr == ResultArray(resp.doc, ResultKey(op.name))
           kept == Titled(arr)
       IN  /\ result.tag = "Ok"
           /\ Len(result.list) = Cardinality(kept)
           /\ Len(result.list) <= Len(arr)
           /\ \A i \in kept :
                result.list[Cardinality({j \in kept : j <= i})] = MemberOf(arr[i], "title").s

\* search has returned ["A", "B"] from
\* {"query":{"search":[{"title":"A"},{"no_title":1},{"title":"B"}]}}
C6_Witness ==
    /\ Returned("search")
    /\ resp.doc = LenientExample
    /\ result = OkList(<<"A", "B">>)

Fetches == {"search", "geosearch", "random_count", "random", "get_languages"}

\* C7: an answer that is not JSON makes the call fail with the decode error,
\* and a JSON answer without an array at query.<resultKey> makes it fail with
\* JSONPathError; neither returns a list.
C7_StrictEnvelope ==
    pc = "done" /\ op.name \in Fetches /\ resp.kind = "ok" =>
        /\ ~resp.json => result = Err(DecodeError)
        /\ resp.json /\ ~HasResultArray(resp.doc, ResultKey(op.name))
               => result = Err(JSONPathError)

\* search has returned JSONPathError from {"query":{}}
C7_Witness ==
    /\ Returned("search")
    /\ resp.kind = "ok"
    /\ resp.doc = JObject(<<Member("query", JObject(<<>>))>>)
    /\ result = Err(JSONPathError)

\* C8: random() sends the request of random_count(1) and returns, of what
\* random_count(1) makes of the same answer, the first title as Some, None
\* for no title, and the same error.
C8_RandomIsFirstOfRandomCount ==
    Returned("random") =>
        LET titles == return_of([NoOp EXCEPT !.name = "random_count", !.count = 1], resp) IN
        /\ sent = <<query_request(entry, random_count_args(1))>>
        /\ titles.tag = "Err" => result = titles
        /\ titles.tag = "Ok" /\ titles.list = <<>> => result = OkOption(<<>>)
        /\ titles.tag = "Ok" /\ titles.list # <<>> => result = OkOption(<<titles.list[1]>>)

\* random() has returned Some("B") from an answer with the titles "B" and "A"
C8_Witness ==
    /\ Returned("random")
    /\ resp.kind = "ok" /\ resp.json
    /\ HasResultArray(resp.doc, "random")
    /\ Cardinality(Titled(ResultArray(resp.doc, "random"))) = 2
    /\ result = OkOption(<<"B">>)

\* C9: an operation hands the transport at most one request, and when that
\* get fails the operation has returned that error, with no second request.
C9_NoRetry ==
    /\ Len(sent) <= 1
    /\ resp.kind = "err" =>
        /\ pc = "done"
        /\ Len(sent) = 1
        /\ result = Err(resp.err)

\* get_languages has returned the transport's error
C9_Witness ==
    /\ Returned("get_languages")
    /\ resp.kind = "err"
    /\ result = Err("NetworkError")

\* reading a parameter's value back
DigitChars == {"0", "1", "2", "3", "4", "5", "6", "7", "8", "9"}
IsDigits(s) == s # <<>> /\ \A i \in DOMAIN s : s[i] \in DigitChars
DigitValue(c) == CHOOSE d \in 0..9 : Digit(d) = c
RECURSIVE Decimal(_)
Decimal(s) ==
    IF s = <<>> THEN 0 ELSE 10 * Decimal(SubSeq(s, 1, Len(s) - 1)) + DigitValue(s[Len(s)])
\* s is the decimal numeral of n, with no sign and no zero in front
IsNumeral(s, n) == IsDigits(s) /\ (Len(s) > 1 => s[1] # "0") /\ Decimal(s) = n

\* s is the shortest decimal of the number x: a sign only when negative, the
\* whole part, and a point with at most four digits only when they are not
\* all zero
IsDecimalOf(s, x) ==
    \E cut \in 0..Len(s) :
        LET signed == s # <<>> /\ s[1] = "-"
            whole == SubSeq(s, IF signed THEN 2 ELSE 1, IF cut = 0 THEN Len(s) ELSE cut - 1)
            frac == IF cut = 0 THEN <<>> ELSE SubSeq(s, cut + 1, Len(s))
        IN  /\ cut > 0 => s[cut] = "." /\ IsDigits(frac) /\ Len(frac) <= 4
                              /\ frac[Len(frac)] # "0"
            /\ IsDigits(whole) /\ (Len(whole) > 1 => whole[1] # "0")
            /\ ~x.nan
            /\ signed <=> x.n < 0
            /\ Abs(x.n) = Decimal(whole) * Scale + Decimal(frac) * 10^(4 - Len(frac))

Keys(args) == {args[i].k : i \in DOMAIN args}
ValueOf(args, key) == args[CHOOSE i \in DOMAIN args : args[i].k = key].v
NoRepeatedKey(args) == \A i, j \in DOMAIN args : args[i].k = args[j].k => i = j

\* C10: the request an operation hands the transport goes to base_url() as
\* the client was when called, has no key twice and has format=json and
\* action=query; search sends exactly list=search, srprop="", srlimit the
\* configured search_results, srsearch the text; geosearch sends exactly
\* list=geosearch, gsradius the radius, gscoord latitude|longitude, gslimit
\* the configured search_results.
C10_QueryParameters ==
    \A n \in DOMAIN sent :
        LET args == sent[n].args IN
        /\ sent[n].url =
               entry.pre_language_url \o entry.language \o entry.post_language_url
        /\ NoRepeatedKey(args)
        /\ {"format", "action"} \subseteq Keys(args)
        /\ ValueOf(args, "format") = <<"j", "s", "o", "n">>
        /\ ValueOf(args, "action") = <<"q", "u", "e", "r", "y">>
        /\ op.name = "search" =>
            /\ Keys(args) = {"list", "srprop", "srlimit", "srsearch", "format", "action"}
            /\ ValueOf(args, "list") = <<"s", "e", "a", "r", "c", "h">>
            /\ ValueOf(args, "srprop") = <<>>
            /\ IsNumeral(ValueOf(args, "srlimit"), entry.search_results)
            /\ ValueOf(args, "srsearch") = op.text
        /\ op.name = "geosearch" =>
            /\ Keys(args) = {"list", "gsradius", "gscoord", "gslimit", "format", "action"}
            /\ ValueOf(args, "list") = <<"g", "e", "o", "s", "e", "a", "r", "c", "h">>
            /\ IsNumeral(ValueOf(args, "gsradius"), op.radius)
            /\ IsNumeral(ValueOf(args, "gslimit"), entry.search_results)
            /\ \E bar \in DOMAIN ValueOf(args, "gscoord") :
                LET coord == ValueOf(args, "gscoord") IN
                /\ coord[bar] = "|"
                /\ IsDecimalOf(SubSeq(coord, 1, bar - 1), op.latitude)
                /\ IsDecimalOf(SubSeq(coord, bar + 1, Len(coord)), op.longitude)

\* geosearch(40.0501, -73.9936, 10000) is awaiting the transport on a client
\* whose URL and search_results have been set
C10_Witness ==
    /\ pc = "awaiting"
    /\ op.name = "geosearch"
    /\ op.latitude = F64(400501)
    /\ op.longitude = F64(-739936)
    /\ entry.search_results # new.search_results
    /\ origin.url = MarkerUrl
    /\ Len(sent) = 1

====
